---- MODULE Spec2Model ----
(***************************************************************************)
(* HttpClient of jsonrpsee (client/http-client/src/client.rs): the three   *)
(* ClientT methods notification, request and batch_request, the two        *)
(* SubscriptionClientT methods, the shared RequestIdManager counter and    *)
(* the optional tokio Semaphore that bounds concurrent calls.              *)
(*                                                                         *)
(* Every method is an async fn.  It is modelled by one action per stretch  *)
(* of code between two suspension points:                                  *)
(*   Call            the caller invokes the method (the future is polled)  *)
(*   acquire         permit.acquire().await                                *)
(*   *_send          the synchronous code up to timeout(fut).await         *)
(*   *_reply         the transport answered first; the rest of the method  *)
(*   transport_error the transport failed first                            *)
(*   request_timeout the timer fired first                                 *)
(*   late_completion the server answers an exchange the client abandoned   *)
(*   subscribe, subscribe_to_method   the whole method, which never awaits *)
(***************************************************************************)
EXTENDS Integers, Sequences, FiniteSets, TLC

\* ------------------------------------------------------------- bounds
\* Number of calls issued against the one shared client.
NumCalls == 2
\* Largest max_concurrent_requests the builder is given.
MaxK == 1
\* Largest number of entries of a batch.
MaxBatch == 2
\* Largest number of entries of a batch reply.
MaxReplies == 3
\* Stand-in for u64::MAX, the largest identifier.
U64Max == 1000

Calls == 1..NumCalls

VARIABLES
    id_kind,        \* HttpClient.id_manager.id_kind
    current_id,     \* HttpClient.id_manager.current_id
    request_guard,  \* HttpClient.request_guard: NoGuard or the Semaphore's size
    permits,        \* permits the Semaphore has available
    calls           \* one record per call: the state of its future

vars == <<id_kind, current_id, request_guard, permits, calls>>

\* Option<Arc<Semaphore>>: None, or Some(Semaphore::new(size)).
NoGuard == [some |-> FALSE, size |-> 0]
SomeGuard(size) == [some |-> TRUE, size |-> size]

\* ------------------------------------------------------------- values
\* Id<'a>: Null, Number(u64) or Str; the Str values of the model hold the
\* decimal digits of n.
IdNumber(n) == [k |-> "Number", n |-> n]
IdStr(n) == [k |-> "Str", n |-> n]
IdNull == [k |-> "Null", n |-> 0]

\* IdKind::into_id: Number(id) or Str(format!("{id}")).
into_id(kind, n) == IF kind = "String" THEN IdStr(n) ELSE IdNumber(n)

\* Id::try_parse_inner_as_number: the number, or InvalidRequestId::Invalid.
try_parse_inner_as_number(id) ==
    IF id.k \in {"Number", "Str"} THEN [ok |-> TRUE, n |-> id.n]
    ELSE [ok |-> FALSE, n |-> 0]

\* A text: the decimal digits of n, or a word.
Digits(n) == [s |-> "digits", n |-> n]
Word(w) == [s |-> w, n |-> 0]
\* Id's Display, used to name an identifier in an error: Number(5) and
\* Str("5") both print as 5.
IdToString(id) ==
    IF id.k = "Null" THEN Word("null") ELSE Digits(id.n)
\* u64's Display.
U64ToString(n) == Digits(n)

\* Raw JSON texts a reply carries as its result.
RawVals == {"7", "\"x\""}
\* serde_json::from_str::<R>(raw) for R = u64: the number, or a parse error.
from_str(raw) ==
    IF raw = "7" THEN [ok |-> TRUE, v |-> 7] ELSE [ok |-> FALSE, v |-> 0]

\* Response<&JsonRawValue>: an identifier and a result or an error payload.
PayloadOk(raw) == [t |-> "result", raw |-> raw, code |-> 0]
PayloadErr(code) == [t |-> "error", raw |-> "", code |-> code]
Payloads == {PayloadOk(r) : r \in RawVals} \cup {PayloadErr(-32000)}
Reply(id, payload) == [id |-> id, payload |-> payload]

\* What the transport hands back: nothing yet, bytes that are no JSON-RPC
\* reply, one reply object, or an array of reply objects.
NoBody == [t |-> "none", rps |-> <<>>]
Garbage == [t |-> "garbage", rps |-> <<>>]
Single(rp) == [t |-> "single", rps |-> <<rp>>]
Array(rps) == [t |-> "array", rps |-> rps]

\* Result<_, Error> of a call.
NoResult == [tag |-> "None"]
Ok(v) == [tag |-> "Ok", val |-> v]
Unit == "()"
Err(e, variant, text) == [tag |-> "Err", err |-> e, variant |-> variant, text |-> text]
PlainErr(e) == Err(e, "", Word(""))
NotPendingRequest(text) == Err("InvalidRequestId", "NotPendingRequest", text)
InvalidId(text) == Err("InvalidRequestId", "Invalid", text)

\* Result<R, ErrorObject> of one batch entry.
EntryOk(v) == [ok |-> TRUE, v |-> v]
EntryErr(code) == [ok |-> FALSE, v |-> code]
\* ErrorObject::borrowed(0, "", None), the filler of the result vector.
Placeholder == EntryErr(0)

BatchResponse(successful_calls, responses, failed_calls) ==
    [successful_calls |-> successful_calls, responses |-> responses,
     failed_calls |-> failed_calls]

\* ------------------------------------------------------------- id manager
\* RequestIdManager::next_request_id: the counter's value, as the configured
\* kind of identifier; the counter moves on by one (a wrapping fetch_add).
next_request_id == into_id(id_kind, current_id)
CounterAfterNext == (current_id + 1) % (U64Max + 1)

\* generate_batch_id_range(id, len): id..id+len, an error if the end
\* exceeds u64::MAX or if id is no number.
generate_batch_id_range(id, len) ==
    LET id_start == try_parse_inner_as_number(id)
    IN  IF ~id_start.ok THEN [ok |-> FALSE, start |-> 0, end |-> 0]
        ELSE IF id_start.n + len > U64Max THEN [ok |-> FALSE, start |-> 0, end |-> 0]
        ELSE [ok |-> TRUE, start |-> id_start.n, end |-> id_start.n + len]

\* ------------------------------------------------------------- decoding
\* request_decode without the comparison of the identifiers.
request_decode_unchecked(id, body) ==
    IF body.t # "single" THEN PlainErr("ParseError")
    ELSE LET response == body.rps[1]
             result == from_str(response.payload.raw)
         IN  IF response.payload.t = "error"
             THEN Err("Call", "", Digits(response.payload.code))
             ELSE IF ~result.ok THEN PlainErr("ParseError")
             ELSE Ok(result.v)

\* request_decode comparing the identifiers as printed, so that Str("5")
\* matches Number(5).
request_decode_loose(id, body) ==
    IF body.t # "single" THEN PlainErr("ParseError")
    ELSE LET response == body.rps[1]
             result == from_str(response.payload.raw)
         IN  IF response.payload.t = "error"
             THEN Err("Call", "", Digits(response.payload.code))
             ELSE IF ~result.ok THEN PlainErr("ParseError")
             ELSE IF IdToString(response.id) = IdToString(id) THEN Ok(result.v)
             ELSE NotPendingRequest(IdToString(response.id))

\* request, after the transport answered: decode the envelope, reject an
\* error payload, decode the result, then compare the identifiers.
request_decode(id, body) ==
    IF body.t # "single" THEN PlainErr("ParseError")
    ELSE LET response == body.rps[1]
             result == from_str(response.payload.raw)
         IN  IF response.payload.t = "error"
             THEN Err("Call", "", Digits(response.payload.code))
             ELSE IF ~result.ok THEN PlainErr("ParseError")
             ELSE IF response.id = id THEN Ok(result.v)
             ELSE NotPendingRequest(IdToString(response.id))

\* The slot of identifier id: id.checked_sub(start), as an index of responses.
SlotOf(id, start, responses) ==
    IF id >= start /\ id - start < Len(responses)
    THEN [some |-> TRUE, p |-> id - start] ELSE [some |-> FALSE, p |-> 0]

\* batch_scatter returning the first error object as the error of the call.
RECURSIVE batch_scatter_fail_fast(_, _, _, _, _)
batch_scatter_fail_fast(json_rps, start, responses, successful_calls, failed_calls) ==
    IF json_rps = <<>>
    THEN Ok(BatchResponse(successful_calls, responses, failed_calls))
    ELSE LET rp == Head(json_rps)
             id == try_parse_inner_as_number(rp.id)
             result == from_str(rp.payload.raw)
             success == rp.payload.t = "result"
             maybe_elem == SlotOf(id.n, start, responses)
         IN  IF ~id.ok THEN InvalidId(IdToString(rp.id))
             ELSE IF ~success THEN Err("Call", "", Digits(rp.payload.code))
             ELSE IF ~result.ok THEN PlainErr("ParseError")
             ELSE IF maybe_elem.some
             THEN batch_scatter_fail_fast(Tail(json_rps), start,
                      [responses EXCEPT ![maybe_elem.p + 1] = EntryOk(result.v)],
                      successful_calls + 1, failed_calls)
             ELSE NotPendingRequest(U64ToString(id.n))

\* batch_scatter writing every entry into the slot of its arrival position.
RECURSIVE batch_scatter_by_arrival(_, _, _, _, _)
batch_scatter_by_arrival(json_rps, start, responses, successful_calls, failed_calls) ==
    IF json_rps = <<>>
    THEN Ok(BatchResponse(successful_calls, responses, failed_calls))
    ELSE LET rp == Head(json_rps)
             id == try_parse_inner_as_number(rp.id)
             result == from_str(rp.payload.raw)
             success == rp.payload.t = "result"
             res == IF success THEN EntryOk(result.v) ELSE EntryErr(rp.payload.code)
             maybe_elem == SlotOf(id.n, start, responses)
         IN  IF ~id.ok THEN InvalidId(IdToString(rp.id))
             ELSE IF success /\ ~result.ok THEN PlainErr("ParseError")
             ELSE IF maybe_elem.some
             THEN batch_scatter_by_arrival(Tail(json_rps), start,
                      [responses EXCEPT ![Len(responses) - Len(json_rps) + 1] = res],
                      IF success THEN successful_calls + 1 ELSE successful_calls,
                      IF success THEN failed_calls ELSE failed_calls + 1)
             ELSE NotPendingRequest(U64ToString(id.n))

\* batch_request's loop over the reply entries.
RECURSIVE batch_scatter(_, _, _, _, _)
batch_scatter(json_rps, start, responses, successful_calls, failed_calls) ==
    IF json_rps = <<>>
    THEN Ok(BatchResponse(successful_calls, responses, failed_calls))
    ELSE LET rp == Head(json_rps)
             id == try_parse_inner_as_number(rp.id)
             result == from_str(rp.payload.raw)
             success == rp.payload.t = "result"
             res == IF success THEN EntryOk(result.v) ELSE EntryErr(rp.payload.code)
             maybe_elem == SlotOf(id.n, start, responses)
         IN  IF ~id.ok THEN InvalidId(IdToString(rp.id))
             ELSE IF success /\ ~result.ok THEN PlainErr("ParseError")
             ELSE IF maybe_elem.some
             THEN batch_scatter(Tail(json_rps), start,
                                [responses EXCEPT ![maybe_elem.p + 1] = res],
                                IF success THEN successful_calls + 1 ELSE successful_calls,
                                IF success THEN failed_calls ELSE failed_calls + 1)
             ELSE NotPendingRequest(U64ToString(id.n))

\* batch_request, after the transport answered: decode the array, fill the
\* result vector with one placeholder per reply entry, scatter the entries.
batch_decode(start, body) ==
    IF body.t # "array" THEN PlainErr("ParseError")
    ELSE batch_scatter(body.rps, start, [i \in 1..Len(body.rps) |-> Placeholder], 0, 0)

\* ------------------------------------------------------------- state
\* A call that was not issued yet.
IdleCall ==
    [op |-> "none", pc |-> "idle", params_ok |-> TRUE, n |-> 0,
     permit |-> FALSE,       \* _permit is Some(SemaphorePermit)
     id |-> IdNull,          \* the identifier next_request_id returned
     ids |-> {},             \* the identifiers issued to this call
     wire |-> <<>>,          \* the identifiers of the envelope, in order
     transport |-> "none",   \* none, outstanding, completed, failed, abandoned, late
     attempts |-> 0,         \* transport operations started
     body |-> NoBody,        \* what the transport handed back
     result |-> NoResult,    \* what the caller received
     resolved |-> 0]         \* how many times the call returned

Guards == {NoGuard} \cup {SomeGuard(k) : k \in 0..MaxK}

\* HttpClientBuilder::build: a fresh counter, the semaphore with all permits.
Init ==
    /\ id_kind \in {"Number", "String"}
    /\ current_id = 0
    /\ request_guard \in Guards
    /\ permits = request_guard.size
    /\ calls = [c \in Calls |-> IdleCall]

\* A return that forgets the permit instead of dropping it.
Release_leak(c) == permits

\* Dropping _permit on return gives the permit back to the semaphore.
Release(c) == IF calls[c].permit THEN permits + 1 ELSE permits

\* The call returns result to its caller; every local is dropped.
Return(rec, result) ==
    [rec EXCEPT !.pc = "done", !.result = result, !.resolved = @ + 1,
                !.permit = FALSE]

\* The call hands its payload to the transport and awaits timeout(fut).
StartTransport(rec) ==
    [rec EXCEPT !.pc = "transport", !.transport = "outstanding",
                !.attempts = @ + 1]

\* ------------------------------------------------------------- actions
\* A caller invokes notification, request or batch_request.
Call(c, op) ==
    /\ calls[c].pc = "idle"
    /\ calls' = [calls EXCEPT ![c] = [@ EXCEPT !.op = op, !.pc = "acquire"]]
    /\ UNCHANGED <<id_kind, current_id, request_guard, permits>>

\* acquire that does not wait: try_acquire().ok() goes on without a permit.
acquire_try(c) ==
    /\ calls[c].pc = "acquire"
    /\ IF request_guard.some /\ permits > 0
       THEN /\ permits' = permits - 1
            /\ calls' = [calls EXCEPT ![c] = [@ EXCEPT !.pc = "admitted", !.permit = TRUE]]
       ELSE /\ permits' = permits
            /\ calls' = [calls EXCEPT ![c] = [@ EXCEPT !.pc = "admitted"]]
    /\ UNCHANGED <<id_kind, current_id, request_guard>>

\* let _permit = match self.request_guard.as_ref() { ... acquire().await.ok() }
acquire(c) ==
    /\ calls[c].pc = "acquire"
    /\ IF request_guard.some
       THEN /\ permits > 0
            /\ permits' = permits - 1
            /\ calls' = [calls EXCEPT ![c] = [@ EXCEPT !.pc = "admitted", !.permit = TRUE]]
       ELSE /\ permits' = permits
            /\ calls' = [calls EXCEPT ![c] = [@ EXCEPT !.pc = "admitted"]]
    /\ UNCHANGED <<id_kind, current_id, request_guard>>

\* notification_send that takes an identifier for its envelope.
notification_send_with_id(c, params_ok) ==
    /\ calls[c].pc = "admitted" /\ calls[c].op = "notification"
    /\ current_id' = CounterAfterNext
    /\ LET rec == [calls[c] EXCEPT !.params_ok = params_ok]
       IN  IF ~params_ok
           THEN /\ calls' = [calls EXCEPT ![c] = Return(rec, PlainErr("ParseError"))]
                /\ permits' = Release(c)
           ELSE /\ calls' = [calls EXCEPT ![c] = StartTransport(rec)]
                /\ permits' = permits
    /\ UNCHANGED <<id_kind, request_guard>>

\* notification: encode the parameters, serialize, start transport.send.
\* params_ok: whether params.to_rpc_params() succeeds.
notification_send(c, params_ok) ==
    /\ calls[c].pc = "admitted" /\ calls[c].op = "notification"
    /\ LET rec == [calls[c] EXCEPT !.params_ok = params_ok]
       IN  IF ~params_ok
           THEN /\ calls' = [calls EXCEPT ![c] = Return(rec, PlainErr("ParseError"))]
                /\ permits' = Release(c)
           ELSE /\ calls' = [calls EXCEPT ![c] = StartTransport(rec)]
                /\ permits' = permits
    /\ UNCHANGED <<id_kind, current_id, request_guard>>

\* request_send on a client whose calls each count on a copy of the counter.
request_send_own_counter(c, params_ok) ==
    /\ calls[c].pc = "admitted" /\ calls[c].op = "request"
    /\ current_id' = current_id
    /\ LET id == next_request_id
           rec == [calls[c] EXCEPT !.id = id, !.ids = {current_id},
                                   !.params_ok = params_ok]
       IN  IF ~params_ok
           THEN /\ calls' = [calls EXCEPT ![c] = Return(rec, PlainErr("ParseError"))]
                /\ permits' = Release(c)
           ELSE /\ calls' = [calls EXCEPT ![c] = StartTransport([rec EXCEPT !.wire = <<id>>])]
                /\ permits' = permits
    /\ UNCHANGED <<id_kind, request_guard>>

\* request: take an identifier, encode the parameters, serialize, start
\* transport.send_and_read_body.
request_send(c, params_ok) ==
    /\ calls[c].pc = "admitted" /\ calls[c].op = "request"
    /\ current_id' = CounterAfterNext
    /\ LET id == next_request_id
           rec == [calls[c] EXCEPT !.id = id, !.ids = {current_id},
                                   !.params_ok = params_ok]
       IN  IF ~params_ok
           THEN /\ calls' = [calls EXCEPT ![c] = Return(rec, PlainErr("ParseError"))]
                /\ permits' = Release(c)
           ELSE /\ calls' = [calls EXCEPT ![c] = StartTransport([rec EXCEPT !.wire = <<id>>])]
                /\ permits' = permits
    /\ UNCHANGED <<id_kind, request_guard>>

\* batch_request: build the batch, take an identifier, derive the range,
\* give entry i the identifier start + i, serialize, start the transport.
\* n: the number of entries of the batch; building an empty batch fails.
batch_request_send(c, n) ==
    /\ calls[c].pc = "admitted" /\ calls[c].op = "batch_request"
    /\ IF n = 0
       THEN /\ calls' = [calls EXCEPT ![c] = Return(@, PlainErr("EmptyBatchRequest"))]
            /\ permits' = Release(c)
            /\ current_id' = current_id
       ELSE LET id == next_request_id
                id_range == generate_batch_id_range(id, n)
                rec == [calls[c] EXCEPT !.id = id, !.n = n]
            IN  /\ current_id' = CounterAfterNext
                /\ IF ~id_range.ok
                   THEN /\ calls' = [calls EXCEPT ![c] = Return(rec, PlainErr("Custom"))]
                        /\ permits' = Release(c)
                   ELSE /\ calls' = [calls EXCEPT ![c] = StartTransport(
                               [rec EXCEPT !.ids = id_range.start..(id_range.end - 1),
                                           !.wire = [i \in 1..n |->
                                               into_id(id_kind, id_range.start + i - 1)]])]
                        /\ permits' = permits
    /\ UNCHANGED <<id_kind, request_guard>>

\* The transport operation of call c completed with body before the timer.
Completed(rec, body) == [rec EXCEPT !.transport = "completed", !.body = body]

\* notification: Ok(Ok(ok)) => Ok(ok)
notification_reply(c) ==
    /\ calls[c].pc = "transport" /\ calls[c].op = "notification"
    /\ calls' = [calls EXCEPT ![c] = Return(Completed(@, NoBody), Ok(Unit))]
    /\ permits' = Release(c)
    /\ UNCHANGED <<id_kind, current_id, request_guard>>

\* request: Ok(Ok(body)) => body, then the decoding and the identifier check.
request_reply(c, body) ==
    /\ calls[c].pc = "transport" /\ calls[c].op = "request"
    /\ calls' = [calls EXCEPT ![c] =
                    Return(Completed(@, body), request_decode(calls[c].id, body))]
    /\ permits' = Release(c)
    /\ UNCHANGED <<id_kind, current_id, request_guard>>

\* batch_request: Ok(Ok(body)) => body, then the scatter loop.
batch_request_reply(c, body) ==
    /\ calls[c].pc = "transport" /\ calls[c].op = "batch_request"
    /\ calls' = [calls EXCEPT ![c] =
                    Return(Completed(@, body),
                           batch_decode(try_parse_inner_as_number(calls[c].id).n, body))]
    /\ permits' = Release(c)
    /\ UNCHANGED <<id_kind, current_id, request_guard>>

\* A transport failure answered by sending the payload again.
transport_error_retry(c) ==
    /\ calls[c].pc = "transport"
    /\ calls' = [calls EXCEPT ![c] = StartTransport([@ EXCEPT !.transport = "failed"])]
    /\ UNCHANGED <<id_kind, current_id, request_guard, permits>>

\* Ok(Err(e)) => Err(Error::Transport(e.into()))
transport_error(c) ==
    /\ calls[c].pc = "transport"
    /\ calls' = [calls EXCEPT ![c] =
                    Return([@ EXCEPT !.transport = "failed"], PlainErr("Transport"))]
    /\ permits' = Release(c)
    /\ UNCHANGED <<id_kind, current_id, request_guard>>

\* A timeout that also covers the wait for the permit.
request_timeout_at_gate(c) ==
    /\ calls[c].pc \in {"acquire", "transport"}
    /\ calls' = [calls EXCEPT ![c] =
                    Return([@ EXCEPT !.transport =
                                IF calls[c].pc = "transport" THEN "abandoned" ELSE @],
                           PlainErr("RequestTimeout"))]
    /\ permits' = Release(c)
    /\ UNCHANGED <<id_kind, current_id, request_guard>>

\* Err(_) => Err(Error::RequestTimeout): the timer fired first and the
\* transport future is dropped with the call.
request_timeout(c) ==
    /\ calls[c].pc = "transport"
    /\ calls' = [calls EXCEPT ![c] =
                    Return([@ EXCEPT !.transport = "abandoned"], PlainErr("RequestTimeout"))]
    /\ permits' = Release(c)
    /\ UNCHANGED <<id_kind, current_id, request_guard>>

\* A late outcome that is handed to the caller of the timed-out call.
late_completion_delivered(c) ==
    /\ calls[c].transport = "abandoned"
    /\ calls' = [calls EXCEPT ![c] =
                    Return([@ EXCEPT !.transport = "late"], PlainErr("Transport"))]
    /\ UNCHANGED <<id_kind, current_id, request_guard, permits>>

\* The server answers, or the connection fails, after the call timed out:
\* nobody is left to receive the outcome.
late_completion(c) ==
    /\ calls[c].transport = "abandoned"
    /\ calls' = [calls EXCEPT ![c] = [@ EXCEPT !.transport = "late"]]
    /\ UNCHANGED <<id_kind, current_id, request_guard, permits>>

\* A subscribe that allocates the identifier of its subscribe call first.
subscribe_allocating(c) ==
    /\ calls[c].pc = "idle"
    /\ current_id' = CounterAfterNext
    /\ calls' = [calls EXCEPT ![c] =
                    Return([@ EXCEPT !.op = "subscribe"], PlainErr("HttpNotImplemented"))]
    /\ UNCHANGED <<id_kind, request_guard, permits>>

\* subscribe: Err(Error::HttpNotImplemented), whatever the arguments.
subscribe(c) ==
    /\ calls[c].pc = "idle"
    /\ calls' = [calls EXCEPT ![c] =
                    Return([@ EXCEPT !.op = "subscribe"], PlainErr("HttpNotImplemented"))]
    /\ UNCHANGED <<id_kind, current_id, request_guard, permits>>

\* subscribe_to_method: Err(Error::HttpNotImplemented), whatever the method.
subscribe_to_method(c) ==
    /\ calls[c].pc = "idle"
    /\ calls' = [calls EXCEPT ![c] =
                    Return([@ EXCEPT !.op = "subscribe_to_method"],
                           PlainErr("HttpNotImplemented"))]
    /\ UNCHANGED <<id_kind, current_id, request_guard, permits>>

\* ------------------------------------------------------------- the server
\* Identifiers a reply to a request with identifier id may carry: the one
\* sent, the same number as the other kind, the next number, null.
RequestReplyIds(id) ==
    {IdNumber(id.n), IdStr(id.n), IdNumber(id.n + 1), IdNull}

RequestBodies(id) ==
    {Garbage} \cup {Single(Reply(i, p)) : i \in RequestReplyIds(id), p \in Payloads}

\* Identifiers an entry of a batch reply may carry: every number from one
\* below the range to one above it, in the kind the client sent, and null.
BatchReplyIds(start, n) ==
    {into_id(id_kind, i) : i \in {j \in (start - 1)..(start + n) : j >= 0}}
        \cup {IdNull}

BatchEntries(start, n) ==
    {Reply(i, p) : i \in BatchReplyIds(start, n), p \in Payloads}

\* Every reply array of m entries.
BatchBodies(start, n, m) ==
    {Array(rps) : rps \in [1..m -> BatchEntries(start, n)]}

\* The reply of a server that answers every entry in order, and two replies
\* of a server that does not: no JSON, and one entry above the range.
PlainBatchBodies(start, n) ==
    {Garbage,
     Array([i \in 1..n |-> Reply(IdNumber(start + i - 1), PayloadOk("7"))]),
     Array(<<Reply(IdNumber(start + n), PayloadOk("7"))>>)}

\* The replies of a server that echoes the identifier, and one that does not.
PlainRequestBodies(id) ==
    {Single(Reply(id, p)) : p \in Payloads}
        \cup {Single(Reply(IdNumber(id.n + 1), PayloadOk("7")))}

\* Call c awaits the reply to a payload of method op.
Awaits(c, op) == calls[c].pc = "transport" /\ calls[c].op = op

\* The base of the identifier range of batch call c.
StartOf(c) == try_parse_inner_as_number(calls[c].id).n

\* ------------------------------------------------------------- specifications
\* Concurrent calls of every kind on one shared client.
Next ==
    \E c \in Calls :
        \/ \E op \in {"notification", "request", "batch_request"} : Call(c, op)
        \/ acquire(c)
        \/ \E params_ok \in BOOLEAN : notification_send(c, params_ok)
        \/ \E params_ok \in BOOLEAN : request_send(c, params_ok)
        \/ \E n \in 0..MaxBatch : batch_request_send(c, n)
        \/ notification_reply(c)
        \/ /\ Awaits(c, "request")
           /\ \E body \in PlainRequestBodies(calls[c].id) : request_reply(c, body)
        \/ /\ Awaits(c, "batch_request")
           /\ \E body \in PlainBatchBodies(StartOf(c), calls[c].n) :
                  batch_request_reply(c, body)
        \/ transport_error(c)
        \/ request_timeout(c)
        \/ late_completion(c)
        \/ subscribe(c)
        \/ subscribe_to_method(c)

Spec == Init /\ [][Next]_vars

\* A client built with max_concurrent_requests(k), k >= 1, and numeric
\* identifiers.
InitLive ==
    /\ Init
    /\ id_kind = "Number"
    /\ request_guard.some /\ request_guard.size >= 1

\* The reply of a server that answers a request with its identifier.
EchoRequestBody(id) == Single(Reply(id, PayloadOk("7")))

\* The reply of a server that answers every entry of a batch in order.
EchoBatchBody(start, n) ==
    Array([i \in 1..n |-> Reply(IdNumber(start + i - 1), PayloadOk("7"))])

\* What call c does on its own once it holds its permit: it encodes and
\* sends, and the timeout(fut) it awaits ends with the server's answer, the
\* transport's failure or the timer.
Resolve(c) ==
    \/ \E params_ok \in BOOLEAN : notification_send(c, params_ok)
    \/ \E params_ok \in BOOLEAN : request_send(c, params_ok)
    \/ \E n \in 0..MaxBatch : batch_request_send(c, n)
    \/ notification_reply(c)
    \/ /\ Awaits(c, "request")
       /\ request_reply(c, EchoRequestBody(calls[c].id))
    \/ /\ Awaits(c, "batch_request")
       /\ batch_request_reply(c, EchoBatchBody(StartOf(c), calls[c].n))
    \/ transport_error(c)
    \/ request_timeout(c)

NextLive ==
    \E c \in Calls :
        \/ \E op \in {"notification", "request", "batch_request"} : Call(c, op)
        \/ acquire(c)
        \/ Resolve(c)

\* The executor runs every call that can go on; the timer of timeout(fut)
\* is finite; tokio's semaphore is fair, so a waiter that can be served
\* again and again is served.
Fairness ==
    \A c \in Calls : WF_vars(Resolve(c)) /\ SF_vars(acquire(c))

SpecLive == InitLive /\ [][NextLive]_vars /\ Fairness

\* The same calls on a client that has one identifier left below u64::MAX,
\* where the range of a batch no longer fits.
InitAged ==
    /\ id_kind \in {"Number", "String"}
    /\ current_id = U64Max - 1
    /\ request_guard \in Guards
    /\ permits = request_guard.size
    /\ calls = [c \in Calls |-> IdleCall]

SpecAged == InitAged /\ [][Next]_vars

\* Concurrent requests against a server that may answer anything.
NextRequest ==
    \E c \in Calls :
        \/ Call(c, "request")
        \/ acquire(c)
        \/ \E params_ok \in BOOLEAN : request_send(c, params_ok)
        \/ /\ Awaits(c, "request")
           /\ \E body \in RequestBodies(calls[c].id) : request_reply(c, body)
        \/ transport_error(c)
        \/ request_timeout(c)
        \/ late_completion(c)

SpecRequest == Init /\ [][NextRequest]_vars

\* One batch, possibly after a request that moved the counter, against a
\* server that may answer anything.
NextBatch ==
    \/ Call(1, "request")
    \/ request_send(1, TRUE)
    \/ Call(2, "batch_request")
    \/ \E c \in {1, 2} : acquire(c)
    \/ \E n \in 0..MaxBatch : batch_request_send(2, n)
    \/ batch_request_reply(2, Garbage)
    \/ /\ Awaits(2, "batch_request")
       /\ \E m \in 0..MaxReplies :
              \E body \in BatchBodies(StartOf(2), calls[2].n, m) :
                  batch_request_reply(2, body)

\* A client built without max_concurrent_requests.
InitBatch == Init /\ ~request_guard.some

SpecBatch == InitBatch /\ [][NextBatch]_vars

\* ------------------------------------------------------------- properties
\* Call c of method op returned after the transport answered it.
Replied(c, op) ==
    calls[c].pc = "done" /\ calls[c].op = op /\ calls[c].transport = "completed"

\* The identifiers of batch call c: [base, base + N).
RangeOf(c) == StartOf(c)..(StartOf(c) + calls[c].n - 1)

\* C1: no identifier is issued twice: the identifiers of two calls on the
\* shared client (one for a request, the range [base, base+N) for a batch)
\* never overlap.
C1_NoIdentifierIssuedTwice ==
    \A c1, c2 \in Calls : c1 # c2 => calls[c1].ids \cap calls[c2].ids = {}

\* The reply object a request received.
ResponseOf(c) == calls[c].body.rps[1]

\* Request c received one reply object whose identifier is not the one sent.
Mismatched(c) ==
    /\ Replied(c, "request") /\ calls[c].body.t = "single"
    /\ ResponseOf(c).id # calls[c].id

\* C2 as stated: every single request whose reply carries an identifier
\* different from the one sent fails with InvalidRequestId naming the reply's
\* identifier, whatever the shape of the reply.
C2_MismatchAlwaysInvalidRequestId ==
    \A c \in Calls :
        Mismatched(c) =>
            calls[c].result = NotPendingRequest(IdToString(ResponseOf(c).id))

\* C2 amended: a mismatched reply that is a success envelope with a decodable
\* result fails with InvalidRequestId naming the reply's identifier; a
\* mismatched error envelope is returned as the protocol error and a
\* mismatched undecodable result as a parse error.
C2_MismatchByShape ==
    \A c \in Calls :
        Mismatched(c) =>
            LET rp == ResponseOf(c)
            IN  /\ rp.payload.t = "result" /\ from_str(rp.payload.raw).ok =>
                       calls[c].result = NotPendingRequest(IdToString(rp.id))
                /\ rp.payload.t = "error" =>
                       calls[c].result = Err("Call", "", Digits(rp.payload.code))
                /\ rp.payload.t = "result" /\ ~from_str(rp.payload.raw).ok =>
                       calls[c].result = PlainErr("ParseError")

\* Witness of C2: a request sent with a numeric identifier got a decodable
\* success reply under the next number and failed with InvalidRequestId.
C2_Witness ==
    \E c \in Calls :
        /\ Mismatched(c)
        /\ ResponseOf(c).payload = PayloadOk("7")
        /\ ResponseOf(c).id = IdNumber(calls[c].id.n + 1)
        /\ calls[c].result.tag = "Err" /\ calls[c].result.err = "InvalidRequestId"

\* C3: a batch call that returns Ok returns exactly N results.
C3_OkHasLengthN ==
    \A c \in Calls :
        Replied(c, "batch_request") /\ calls[c].result.tag = "Ok" =>
            Len(calls[c].result.val.responses) = calls[c].n

\* The outcome of one reply entry: its decoded result or its error object.
OutcomeOf(rp) ==
    IF rp.payload.t = "result" THEN EntryOk(from_str(rp.payload.raw).v)
    ELSE EntryErr(rp.payload.code)

Decodable(rp) == rp.payload.t = "result" => from_str(rp.payload.raw).ok

\* The reply entries of batch call c.
EntriesOf(c) == calls[c].body.rps

\* The number an entry's identifier stands for.
NumberOf(rp) == try_parse_inner_as_number(rp.id)

\* Batch call c received one reply per entry: the identifiers base..base+N-1
\* in some order.
PermutationReply(c) ==
    /\ Replied(c, "batch_request") /\ calls[c].body.t = "array"
    /\ Len(EntriesOf(c)) = calls[c].n
    /\ \A i \in RangeOf(c) :
           \E k \in 1..Len(EntriesOf(c)) :
               NumberOf(EntriesOf(c)[k]).ok /\ NumberOf(EntriesOf(c)[k]).n = i

\* C4: when the server answers a batch with one reply per entry in any order,
\* the call that returns Ok holds the outcome of the reply with identifier
\* base+i in slot i, and it returns Ok whenever every result decodes.
C4_SlotByIdentifier ==
    \A c \in Calls :
        PermutationReply(c) =>
            /\ (\A k \in 1..calls[c].n : Decodable(EntriesOf(c)[k])) =>
                   calls[c].result.tag = "Ok"
            /\ calls[c].result.tag = "Ok" =>
                   \A k \in 1..calls[c].n :
                       LET rp == EntriesOf(c)[k]
                       IN  calls[c].result.val.responses[NumberOf(rp).n - StartOf(c) + 1]
                               = OutcomeOf(rp)

\* Witness of C4: a batch of two answered in reverse order, a success and an
\* error, returned Ok.
C4_Witness ==
    \E c \in Calls :
        /\ PermutationReply(c) /\ calls[c].n = 2
        /\ NumberOf(EntriesOf(c)[1]).n = StartOf(c) + 1
        /\ EntriesOf(c)[1].payload.t = "error"
        /\ EntriesOf(c)[2].payload = PayloadOk("7")
        /\ calls[c].result.tag = "Ok"

\* C5: a reply entry whose result does not decode fails that entry only: a
\* batch answered with one reply per entry still returns Ok.
C5_DecodeFailureIsPerEntry ==
    \A c \in Calls :
        /\ PermutationReply(c)
        /\ \E k \in 1..calls[c].n : ~Decodable(EntriesOf(c)[k])
        => calls[c].result.tag = "Ok"

\* C6: a batch reply with an entry whose identifier is outside
\* [base, base+N) fails the whole call with InvalidRequestId, for every
\* number of reply entries (here: every entry decodes and carries a number).
C6_OutOfRangeFailsBatch ==
    \A c \in Calls :
        /\ Replied(c, "batch_request") /\ calls[c].body.t = "array"
        /\ \A k \in 1..Len(EntriesOf(c)) :
               Decodable(EntriesOf(c)[k]) /\ NumberOf(EntriesOf(c)[k]).ok
        /\ \E k \in 1..Len(EntriesOf(c)) : NumberOf(EntriesOf(c)[k]).n \notin RangeOf(c)
        => calls[c].result.tag = "Err" /\ calls[c].result.err = "InvalidRequestId"

\* Calls whose transport operation is outstanding, and calls holding a permit.
Outstanding == {c \in Calls : calls[c].transport = "outstanding"}
Holders == {c \in Calls : calls[c].permit}

\* C7: with max_concurrent_requests = K at most K calls of any kind have an
\* outstanding transport operation, a batch counting as one, and a call with
\* an outstanding transport operation holds one of the K permits.
C7_AtMostKOutstanding ==
    request_guard.some =>
        /\ Cardinality(Outstanding) <= request_guard.size
        /\ Outstanding \subseteq Holders

\* Witness of C7: with K = 1 a batch of two entries is outstanding while
\* another call waits for the permit.
C7_Witness ==
    /\ request_guard = SomeGuard(1)
    /\ \E c1, c2 \in Calls :
           /\ c1 \in Outstanding /\ calls[c1].op = "batch_request" /\ calls[c1].n = 2
           /\ calls[c2].pc = "acquire"

\* C8: every exit path gives the permit back exactly once: available permits
\* plus calls holding one is K, a call that returned or did not pass the
\* gate holds none, and with no call in flight all K are available.
C8_PermitsConserved ==
    request_guard.some =>
        /\ permits + Cardinality(Holders) = request_guard.size
        /\ \A c \in Calls : calls[c].permit <=> calls[c].pc \in {"admitted", "transport"}
        /\ (\A c \in Calls : calls[c].pc \in {"idle", "done"}) =>
               permits = request_guard.size

\* Witness of C8: behind a gate of one permit, one call returned because
\* its identifier range did not fit and another on a timeout, and the permit
\* is back.
C8_Witness ==
    /\ request_guard = SomeGuard(1) /\ permits = 1
    /\ \E c1, c2 \in Calls :
           /\ calls[c1].pc = "done" /\ calls[c1].result = PlainErr("Custom")
           /\ calls[c2].pc = "done" /\ calls[c2].result = PlainErr("RequestTimeout")

\* C9: a call whose timeout elapsed first returned the Timeout error once,
\* and keeps it when the transport's outcome arrives later; no call returns
\* twice.
C9_TimeoutIsFinal ==
    \A c \in Calls :
        /\ calls[c].resolved <= 1
        /\ calls[c].transport \in {"abandoned", "late"} =>
               /\ calls[c].pc = "done" /\ calls[c].resolved = 1
               /\ calls[c].result = PlainErr("RequestTimeout")

\* Witness of C9: the outcome of a timed-out batch arrived late.
C9_Witness ==
    \E c \in Calls :
        /\ calls[c].op = "batch_request" /\ calls[c].transport = "late"
        /\ calls[c].result = PlainErr("RequestTimeout")

\* C10: a request returns Ok(value) exactly when the transport answered in
\* time with a success envelope under the identifier sent whose result
\* decodes, and value is the decoded result.
C10_OkIffMatchingSuccess ==
    \A c \in Calls :
        calls[c].pc = "done" /\ calls[c].op = "request" =>
            LET good == /\ calls[c].transport = "completed"
                        /\ calls[c].body.t = "single"
                        /\ ResponseOf(c).payload.t = "result"
                        /\ from_str(ResponseOf(c).payload.raw).ok
                        /\ ResponseOf(c).id = calls[c].id
            IN  /\ calls[c].result.tag = "Ok" <=> good
                /\ good => calls[c].result = Ok(from_str(ResponseOf(c).payload.raw).v)

\* Witness of C10: a client with string identifiers got its result back.
C10_Witness ==
    \E c \in Calls :
        /\ Replied(c, "request") /\ calls[c].id.k = "Str"
        /\ calls[c].result = Ok(7)

\* The two SubscriptionClientT methods.
SubscribeOps == {"subscribe", "subscribe_to_method"}

\* C11: subscribe and subscribe_to_method return HttpNotImplemented in every
\* state of the client, the saturated gate included, and leave the shared
\* state alone: the call takes no identifier and no permit and starts no
\* transport operation, and its step changes neither the counter nor the
\* permits nor any other call.
C11_SubscribeUnsupported ==
    /\ [](\A c \in Calls :
              calls[c].op \in SubscribeOps =>
                  /\ calls[c].pc = "done" /\ calls[c].resolved = 1
                  /\ calls[c].result = PlainErr("HttpNotImplemented")
                  /\ calls[c].ids = {} /\ calls[c].id = IdNull
                  /\ ~calls[c].permit
                  /\ calls[c].attempts = 0 /\ calls[c].transport = "none")
    /\ [][\A c \in Calls :
              calls[c].op \notin SubscribeOps /\ calls'[c].op \in SubscribeOps =>
                  /\ current_id' = current_id
                  /\ permits' = permits
                  /\ request_guard' = request_guard /\ id_kind' = id_kind
                  /\ \A d \in Calls \ {c} : calls'[d] = calls[d]]_vars

\* Witness of C11: subscribe returned while the only permit was taken and
\* its holder awaited the transport.
C11_Witness ==
    /\ request_guard = SomeGuard(1) /\ permits = 0
    /\ \E c1, c2 \in Calls :
           /\ calls[c1].pc = "transport"
           /\ calls[c2].op = "subscribe"
           /\ calls[c2].result = PlainErr("HttpNotImplemented")

\* Requests that were issued their identifier.
Issued == {c \in Calls : calls[c].op = "request" /\ calls[c].ids # {}}

\* C12: concurrent requests on one client get pairwise distinct identifiers,
\* and the identifier a request is issued is greater than every identifier
\* issued to a request before it.
C12_RequestIdsDistinctIncreasing ==
    /\ [](\A c1, c2 \in Issued : c1 # c2 => calls[c1].id # calls[c2].id)
    /\ [][\A c \in Calls :
              c \notin Issued /\ calls'[c].op = "request" /\ calls'[c].ids # {} =>
                  \A d \in Issued : calls[d].id.n < calls'[c].id.n]_vars

\* Witness of C12: two requests were both awaiting their replies, the second
\* one issued holding the greater identifier.
C12_Witness ==
    \E c1, c2 \in Calls :
        /\ Awaits(c1, "request") /\ Awaits(c2, "request")
        /\ calls[c1].id.n = 0 /\ calls[c2].id.n = 1

\* C13: a batch of N answered with N well-formed error objects under the N
\* identifiers of its range returns Ok, every slot holding its entry's error
\* object, with successful_calls = 0 and failed_calls = N.
C13_AllErrorsIsOk ==
    \A c \in Calls :
        /\ PermutationReply(c)
        /\ \A k \in 1..calls[c].n : EntriesOf(c)[k].payload.t = "error"
        => /\ calls[c].result.tag = "Ok"
           /\ calls[c].result.val.successful_calls = 0
           /\ calls[c].result.val.failed_calls = calls[c].n
           /\ \A k \in 1..calls[c].n :
                  calls[c].result.val.responses[NumberOf(EntriesOf(c)[k]).n - StartOf(c) + 1]
                      = EntryErr(EntriesOf(c)[k].payload.code)

\* Witness of C13: a batch of two, both entries answered with an error
\* object, in reverse order.
C13_Witness ==
    \E c \in Calls :
        /\ PermutationReply(c) /\ calls[c].n = 2
        /\ \A k \in 1..2 : EntriesOf(c)[k].payload.t = "error"
        /\ NumberOf(EntriesOf(c)[1]).n = StartOf(c) + 1
        /\ calls[c].result.tag = "Ok"

\* C14: whenever batch_request returns Ok, successful_calls is the number of
\* result slots holding a success and failed_calls the number holding an
\* error, for every reply the server may send.
C14_CountsMatchSlots ==
    \A c \in Calls :
        Replied(c, "batch_request") /\ calls[c].result.tag = "Ok" =>
            LET r == calls[c].result.val
            IN  /\ r.successful_calls =
                       Cardinality({i \in 1..Len(r.responses) : r.responses[i].ok})
                /\ r.failed_calls =
                       Cardinality({i \in 1..Len(r.responses) : ~r.responses[i].ok})

\* C16: every entry of an outbound batch carries an integer identifier,
\* whatever kind of identifier the client is configured with.
C16_BatchIdsAreNumbers ==
    \A c \in Calls :
        calls[c].op = "batch_request" =>
            \A i \in 1..Len(calls[c].wire) : calls[c].wire[i].k = "Number"

\* C18: a batch reply whose entries all carry identifiers inside
\* [base, base+N) never fails the call with InvalidRequestId, also when it
\* has fewer than N entries.
C18_InRangeNeverInvalidRequestId ==
    \A c \in Calls :
        /\ Replied(c, "batch_request") /\ calls[c].body.t = "array"
        /\ \A k \in 1..Len(EntriesOf(c)) :
               NumberOf(EntriesOf(c)[k]).ok /\ NumberOf(EntriesOf(c)[k]).n \in RangeOf(c)
        => ~(calls[c].result.tag = "Err" /\ calls[c].result.err = "InvalidRequestId")

\* The calls that go to the transport.
ClientOps == {"notification", "request", "batch_request"}

\* C15: a call starts at most one transport operation, and a call that got
\* to the transport and returned, on whatever outcome, started exactly one.
C15_OneTransportAttempt ==
    \A c \in Calls :
        /\ calls[c].attempts <= 1
        /\ calls[c].transport # "none" => calls[c].attempts = 1
        /\ /\ calls[c].pc = "done" /\ calls[c].op \in ClientOps
           /\ calls[c].params_ok
           /\ calls[c].op = "batch_request" => calls[c].n > 0
           => calls[c].attempts = 1

\* Witness of C15: a request returned the transport's failure after one
\* attempt.
C15_Witness ==
    \E c \in Calls :
        /\ calls[c].op = "request" /\ calls[c].pc = "done"
        /\ calls[c].result = PlainErr("Transport") /\ calls[c].attempts = 1

\* Calls that took an identifier from the counter.
TookId == {c \in Calls : calls[c].id # IdNull}

\* C17: a notification goes out without identifier and takes none: the
\* counter counts the requests and batches only, so the next request gets
\* the same identifier with or without notifications before it; and a
\* notification returns Ok only once its transport send completed.
C17_NotificationTakesNoId ==
    /\ current_id = Cardinality(TookId)
    /\ \A c \in Calls :
           calls[c].op = "notification" =>
               /\ calls[c].wire = <<>> /\ calls[c].ids = {} /\ c \notin TookId
               /\ calls[c].result.tag = "Ok" =>
                      calls[c].transport = "completed" /\ calls[c].attempts = 1

\* Witness of C17: a notification returned Ok and a request on the same
\* client was issued the first identifier.
C17_Witness ==
    \E c1, c2 \in Calls :
        /\ calls[c1].op = "notification" /\ calls[c1].result = Ok(Unit)
        /\ calls[c2].op = "request" /\ calls[c2].ids = {0} /\ current_id = 1

\* C20: the timeout covers the transport operation only: a call waiting for
\* its permit has no result, and a call returns Timeout only from awaiting
\* the transport operation it started, holding its permit if there is a gate.
C20_TimeoutOnlyOnTransport ==
    /\ [](\A c \in Calls :
              /\ calls[c].pc = "acquire" => calls[c].result = NoResult
              /\ calls[c].result = PlainErr("RequestTimeout") => calls[c].attempts = 1)
    /\ [][\A c \in Calls :
              /\ calls[c].result # PlainErr("RequestTimeout")
              /\ calls'[c].result = PlainErr("RequestTimeout")
              => /\ calls[c].pc = "transport"
                 /\ request_guard.some => calls[c].permit]_vars

\* Witness of C20: behind a gate of one permit the holder timed out on its
\* transport operation while another call, still without result, waits for
\* the permit.
C20_Witness ==
    /\ request_guard = SomeGuard(1)
    /\ \E c1, c2 \in Calls :
           /\ calls[c1].result = PlainErr("RequestTimeout") /\ calls[c1].attempts = 1
           /\ calls[c2].pc = "acquire" /\ calls[c2].result = NoResult

\* C19: behind a gate of at least one permit, with a finite timeout and a
\* fair semaphore, every issued call eventually returns: holders return
\* and give their permit back, so a waiting call gets one.
C19_EveryCallResolves ==
    \A c \in Calls : (calls[c].pc # "idle") ~> (calls[c].pc = "done")

\* Witness of C19: behind a gate of one permit a call holds the permit that
\* an earlier call gave back when it timed out.
C19_Witness ==
    /\ request_guard = SomeGuard(1) /\ permits = 0
    /\ \E c1, c2 \in Calls :
           /\ calls[c1].result = PlainErr("RequestTimeout")
           /\ calls[c2].permit /\ calls[c2].pc = "transport"

====
